---- MODULE Spec2Model ----
(***************************************************************************)
(* State-machine model of the Proton VPN GTK application:                  *)
(*   - App (app.py): window creation and the signal-connect queue;         *)
(*   - LoginWidget / LoginForm / TwoFactorAuthForm (widgets/login.py).     *)
(* Each action is one handler of the source, executed to completion on    *)
(* the UI loop, except FutureDone, which is the worker thread completing   *)
(* a controller future.                                                    *)
(***************************************************************************)
EXTENDS Integers, Sequences, FiniteSets, TLC

VARIABLES
    \* ---- App (app.py) ----
    window,                 \* App.window: FALSE is None, TRUE is the MainWindow
    tray_indicator,         \* App.tray_indicator: "None" or "TrayIndicator"
    signal_connect_queue,   \* App._signal_connect_queue: Seq of [signal_spec, callback]
    connections,            \* obj.connect calls made so far: Seq of [obj, signal_name, callback]
    submitted,              \* history: every queue_signal_connect call, [signal_spec, window]
    failures,               \* history: requests whose processing raised, [callback, error]
    app_log,                \* history: the toolkit calls made by do_activate / connect, in order
    app_last,               \* history: the last App operation, [op, raised, callback, window]
    \* ---- LoginWidget, LoginForm, TwoFactorAuthForm (login.py) ----
    username,               \* LoginForm._username_entry text
    password,               \* LoginForm._password_entry text
    login_button_sensitive, \* LoginForm._login_button "sensitive" property
    login_error,            \* LoginForm._error text
    login_spinner,          \* LoginForm._login_spinner is spinning
    active_form,            \* LoginWidget.active_form
    visible_child,          \* LoginWidget (Gtk.Stack) visible child
    tfa_code,               \* TwoFactorAuthForm._2fa_code_entry text
    tfa_error,              \* TwoFactorAuthForm._error text
    tfa_spinner,            \* TwoFactorAuthForm._2fa_spinner is spinning
    futures,                \* the futures returned by the controller: Seq of [method, state, outcome]
    idle_queue,             \* GLib idle sources not yet dispatched: Seq of future ids
    twofa_due,              \* history: a login result asked for 2FA, with no expiry or LoginWidget.reset() since
    login_last,             \* history: the last login operation, [op, fut, outcome, signals, displayed]
    login_obs,              \* observer: [op, call, shown, logged_in] of the login operations (see Observe)
    \* ---- GeneralSettings (general_settings.py) ----
    app_configuration,      \* controller.app_configuration: [connect_at_app_startup, tray_pinned_servers]
    setting_rows,           \* the rows build_ui has packed into GeneralSettings
    tray_loaded,            \* the pinned servers the tray indicator read at its last reload_pinned_servers
    settings_last,          \* history: the last settings operation, [op, text]
    \* ---- scripts/versions.py ----
    script_last             \* the call the script made: [op, version, delim, versions, raises, value]

appVars == <<window, tray_indicator, signal_connect_queue, connections,
             submitted, failures, app_log, app_last>>

loginVars == <<username, password, login_button_sensitive, login_error, login_spinner,
               active_form, visible_child, tfa_code, tfa_error, tfa_spinner,
               futures, idle_queue, twofa_due, login_last>>

settingsVars == <<app_configuration, setting_rows, tray_loaded, settings_last>>

scriptVars == <<script_last>>

observerVars == <<login_obs>>

vars == <<appVars, loginVars, observerVars, settingsVars, scriptVars>>

\* what an operation of one component leaves alone
nonAppVars == <<loginVars, observerVars, settingsVars, scriptVars>>
nonLoginVars == <<appVars, settingsVars, scriptVars>>
nonSettingsVars == <<appVars, loginVars, observerVars, scriptVars>>
nonScriptVars == <<appVars, loginVars, observerVars, settingsVars>>

-----------------------------------------------------------------------------
(* Bounds *)
MaxRequests == 3       \* queue_signal_connect calls per behaviour
MaxActivations == 2    \* do_activate calls per behaviour
MaxSubmissions == 2    \* controller.login / submit_2fa_code calls per behaviour
MaxVersionLen == 7     \* characters of a version string
MaxItems == 3          \* items of a manifest, over all its releases
MaxReleases == 2       \* releases of a manifest given to the builders

-----------------------------------------------------------------------------
(* App: signal specs and the widget tree they are resolved against *)

\* A signal_spec string is a sequence of tokens: attribute names and the
\* separators "." and "::".  str.split is computed on that sequence.
SignalSpecs ==
    { <<"main_widget", ".", "login_widget", "::", "user-logged-in">>,
      <<"main_widget", "::", "main-widget-ready">>,
      <<"main_widget", ".", "notifications", ".", "error_dialogs", "::", "changed">>,
      <<"main_widget", ".", "missing_widget", "::", "clicked">>,
      <<"main_widget", ".", "login_widget">> }

\* The attributes reachable from the main window, by path, with the kind of
\* object found there.  <<>> is the window itself.
WidgetTree ==
    ( <<>> :> "GObject" ) @@
    ( <<"main_widget">> :> "GObject" ) @@
    ( <<"main_widget", "login_widget">> :> "GObject" ) @@
    ( <<"main_widget", "notifications">> :> "GObject" ) @@
    ( <<"main_widget", "notifications", "error_dialogs">> :> "list" )

RECURSIVE SplitFrom(_, _, _, _)
SplitFrom(s, delim, i, cur) ==
    IF i > Len(s) THEN << cur >>
    ELSE IF s[i] = delim THEN << cur >> \o SplitFrom(s, delim, i + 1, << >>)
    ELSE SplitFrom(s, delim, i + 1, Append(cur, s[i]))

\* str.split(delim): the pieces between the occurrences of delim
Split(s, delim) == SplitFrom(s, delim, 1, << >>)

\* obj = getattr(obj, segment) for each segment of the widget path.
\* A segment is the token sequence between two dots; the empty one is "".
RECURSIVE GetAttrs(_, _)
GetAttrs(obj, segments) ==
    IF segments = << >> THEN [error |-> "None", obj |-> obj]
    ELSE LET seg == Head(segments)
             nxt == obj \o seg
         IN IF seg # << >> /\ nxt \in DOMAIN WidgetTree
            THEN GetAttrs(nxt, Tail(segments))
            ELSE [error |-> "AttributeError", obj |-> obj]

\* The part of one loop iteration after the pop: split, walk, assert.
\* error is "None" when obj.connect(signal_name, callback) is reached.
Resolve(signal_spec) ==
    LET parts == Split(signal_spec, "::")
    IN IF Len(parts) # 2
       THEN [error |-> "ValueError", obj |-> << >>, signal_name |-> << >>]
       ELSE LET walked == GetAttrs(<< >>, Split(parts[1], "."))
            IN IF walked.error # "None"
               THEN [error |-> walked.error, obj |-> walked.obj, signal_name |-> parts[2]]
               ELSE IF WidgetTree[walked.obj] # "GObject"
               THEN [error |-> "AssertionError", obj |-> walked.obj, signal_name |-> parts[2]]
               ELSE [error |-> "None", obj |-> walked.obj, signal_name |-> parts[2]]

\* Mutant: the isinstance assertion is missing.
ResolveNoAssert(signal_spec) ==
    LET parts == Split(signal_spec, "::")
    IN IF Len(parts) # 2
       THEN [error |-> "ValueError", obj |-> << >>, signal_name |-> << >>]
       ELSE LET walked == GetAttrs(<< >>, Split(parts[1], "."))
            IN [error |-> walked.error, obj |-> walked.obj, signal_name |-> parts[2]]

ResolveRequest(signal_spec) == Resolve(signal_spec)

\* for _ in range(len(queue)): pop(0), resolve, assert, connect.
\* n is the number of iterations left; an exception leaves the loop.
RECURSIVE ProcessLoop(_, _, _, _)
ProcessLoop(queue, conns, log, n) ==
    IF n = 0
    THEN [queue |-> queue, connections |-> conns, log |-> log,
          raised |-> "None", failed |-> {}]
    ELSE LET req == Head(queue)
             rest == Tail(queue)
             r == ResolveRequest(req.signal_spec)
         IN IF r.error # "None"
            THEN [queue |-> rest, connections |-> conns, log |-> log,
                  raised |-> r.error,
                  failed |-> {[callback |-> req.callback, error |-> r.error]}]
            ELSE ProcessLoop(rest,
                             Append(conns, [obj |-> r.obj, signal_name |-> r.signal_name,
                                            callback |-> req.callback]),
                             Append(log, "connect"),
                             n - 1)

\* Mutant: the queue is drained from its tail.
RECURSIVE ProcessLoopLifo(_, _, _, _)
ProcessLoopLifo(queue, conns, log, n) ==
    IF n = 0
    THEN [queue |-> queue, connections |-> conns, log |-> log,
          raised |-> "None", failed |-> {}]
    ELSE LET req == queue[Len(queue)]
             rest == SubSeq(queue, 1, Len(queue) - 1)
             r == ResolveRequest(req.signal_spec)
         IN IF r.error # "None"
            THEN [queue |-> rest, connections |-> conns, log |-> log,
                  raised |-> r.error,
                  failed |-> {[callback |-> req.callback, error |-> r.error]}]
            ELSE ProcessLoopLifo(rest,
                             Append(conns, [obj |-> r.obj, signal_name |-> r.signal_name,
                                            callback |-> req.callback]),
                             Append(log, "connect"),
                             n - 1)

\* Mutant: the request is read but left in the queue.
RECURSIVE ProcessLoopNoPop(_, _, _, _)
ProcessLoopNoPop(queue, conns, log, n) ==
    IF n = 0
    THEN [queue |-> queue, connections |-> conns, log |-> log,
          raised |-> "None", failed |-> {}]
    ELSE LET req == Head(queue)
             r == ResolveRequest(req.signal_spec)
         IN IF r.error # "None"
            THEN [queue |-> queue, connections |-> conns, log |-> log,
                  raised |-> r.error,
                  failed |-> {[callback |-> req.callback, error |-> r.error]}]
            ELSE ProcessLoopNoPop(queue,
                             Append(conns, [obj |-> r.obj, signal_name |-> r.signal_name,
                                            callback |-> req.callback]),
                             Append(log, "connect"),
                             n - 1)

\* Mutants of _process_signal_connect_queue built on the loops above.
ProcessSignalConnectQueueLifo(queue, conns, log) ==
    ProcessLoopLifo(queue, conns, log, Len(queue))

ProcessSignalConnectQueueNoPop(queue, conns, log) ==
    ProcessLoopNoPop(queue, conns, log, Len(queue))

\* App._process_signal_connect_queue
ProcessSignalConnectQueue(queue, conns, log) ==
    ProcessLoop(queue, conns, log, Len(queue))

-----------------------------------------------------------------------------
(* App: state and operations *)

AppInit ==
    /\ window = FALSE
    /\ tray_indicator = "None"
    /\ signal_connect_queue = << >>
    /\ connections = << >>
    /\ submitted = << >>
    /\ failures = {}
    /\ app_log = << >>
    /\ app_last = [op |-> "init", raised |-> "None", callback |-> 0, window |-> FALSE]

NumActivations == Cardinality({i \in 1..Len(app_log) : app_log[i] = "do_activate"})

\* App.queue_signal_connect(signal_spec, callback); the callback of the k-th
\* call is identified by k.
QueueSignalConnect(signal_spec) ==
    /\ Len(submitted) < MaxRequests
    /\ LET callback == Len(submitted) + 1
           queue == Append(signal_connect_queue,
                           [signal_spec |-> signal_spec, callback |-> callback])
           p == ProcessSignalConnectQueue(queue, connections, app_log)
       IN /\ submitted' = Append(submitted, [signal_spec |-> signal_spec, window |-> window])
          /\ IF window
             THEN /\ signal_connect_queue' = p.queue
                  /\ connections' = p.connections
                  /\ app_log' = p.log
                  /\ failures' = failures \cup p.failed
                  /\ app_last' = [op |-> "queue_signal_connect", raised |-> p.raised,
                                  callback |-> callback, window |-> TRUE]
             ELSE /\ signal_connect_queue' = queue
                  /\ app_last' = [op |-> "queue_signal_connect", raised |-> "None",
                                  callback |-> callback, window |-> FALSE]
                  /\ UNCHANGED <<connections, app_log, failures>>
    /\ UNCHANGED <<window, tray_indicator>>
    /\ UNCHANGED nonAppVars

\* Mutant: an activation that finds the window built does nothing.
DoActivateOnlyFirstPresents(tray_supported) ==
    /\ NumActivations < MaxActivations
    /\ LET log0 == Append(app_log, "do_activate")
       IN IF ~window
          THEN LET p == ProcessSignalConnectQueue(signal_connect_queue, connections,
                                                  Append(log0, "MainWindow"))
               IN /\ window' = TRUE
                  /\ signal_connect_queue' = p.queue
                  /\ connections' = p.connections
                  /\ failures' = failures \cup p.failed
                  /\ app_last' = [op |-> "do_activate", raised |-> p.raised,
                                  callback |-> 0, window |-> FALSE]
                  /\ IF p.raised # "None"
                     THEN /\ app_log' = p.log
                          /\ UNCHANGED tray_indicator
                     ELSE /\ tray_indicator' =
                                 IF tray_supported THEN "TrayIndicator" ELSE "None"
                          /\ app_log' = p.log \o
                                 << "add_window", "TrayIndicator",
                                    "configure_close_button_behaviour",
                                    "show_all", "present", "app-ready" >>
          ELSE /\ app_log' = log0
               /\ app_last' = [op |-> "do_activate", raised |-> "None",
                               callback |-> 0, window |-> TRUE]
               /\ UNCHANGED <<window, tray_indicator, signal_connect_queue,
                              connections, failures>>
    /\ UNCHANGED submitted
    /\ UNCHANGED nonAppVars

\* Mutant: the queue is processed after the window has been added and shown.
DoActivateConnectsLate(tray_supported) ==
    /\ NumActivations < MaxActivations
    /\ LET log0 == Append(app_log, "do_activate")
       IN IF ~window
          THEN LET p == ProcessSignalConnectQueue(signal_connect_queue, connections,
                            log0 \o << "MainWindow", "add_window", "TrayIndicator",
                                       "configure_close_button_behaviour", "show_all" >>)
               IN /\ window' = TRUE
                  /\ signal_connect_queue' = p.queue
                  /\ connections' = p.connections
                  /\ failures' = failures \cup p.failed
                  /\ app_last' = [op |-> "do_activate", raised |-> p.raised,
                                  callback |-> 0, window |-> FALSE]
                  /\ tray_indicator' = IF tray_supported THEN "TrayIndicator" ELSE "None"
                  /\ app_log' = IF p.raised # "None" THEN p.log
                                ELSE p.log \o << "present", "app-ready" >>
          ELSE /\ app_log' = log0 \o << "present", "app-ready" >>
               /\ app_last' = [op |-> "do_activate", raised |-> "None",
                               callback |-> 0, window |-> TRUE]
               /\ UNCHANGED <<window, tray_indicator, signal_connect_queue,
                              connections, failures>>
    /\ UNCHANGED submitted
    /\ UNCHANGED nonAppVars

\* App.do_activate; tray_supported is whether TrayIndicator(...) can be built
\* (TrayIndicatorNotSupported is caught and gives None).
DoActivate(tray_supported) ==
    /\ NumActivations < MaxActivations
    /\ LET log0 == Append(app_log, "do_activate")
       IN IF ~window
          THEN LET p == ProcessSignalConnectQueue(signal_connect_queue, connections,
                                                  Append(log0, "MainWindow"))
               IN /\ window' = TRUE
                  /\ signal_connect_queue' = p.queue
                  /\ connections' = p.connections
                  /\ failures' = failures \cup p.failed
                  /\ app_last' = [op |-> "do_activate", raised |-> p.raised,
                                  callback |-> 0, window |-> FALSE]
                  /\ IF p.raised # "None"
                     THEN \* the exception leaves do_activate
                          /\ app_log' = p.log
                          /\ UNCHANGED tray_indicator
                     ELSE /\ tray_indicator' =
                                 IF tray_supported THEN "TrayIndicator" ELSE "None"
                          /\ app_log' = p.log \o
                                 << "add_window", "TrayIndicator",
                                    "configure_close_button_behaviour",
                                    "show_all", "present", "app-ready" >>
          ELSE /\ app_log' = log0 \o << "present", "app-ready" >>
               /\ app_last' = [op |-> "do_activate", raised |-> "None",
                               callback |-> 0, window |-> TRUE]
               /\ UNCHANGED <<window, tray_indicator, signal_connect_queue,
                              connections, failures>>
    /\ UNCHANGED submitted
    /\ UNCHANGED nonAppVars

AppNext ==
    \/ \E s \in SignalSpecs : QueueSignalConnect(s)
    \/ \E t \in BOOLEAN : DoActivate(t)


-----------------------------------------------------------------------------
(* Login: texts, controller outcomes and the widget state *)

\* Entry texts, as sequences of characters.
Texts == { << >>, << " " >>, << " ", "a" >> }

\* 2FA codes typed by the user.
Codes == { << >>, << "1" >> }

RECURSIVE LStrip(_)
LStrip(s) == IF s # << >> /\ Head(s) = " " THEN LStrip(Tail(s)) ELSE s

RECURSIVE RStrip(_)
RStrip(s) == IF s # << >> /\ s[Len(s)] = " " THEN RStrip(SubSeq(s, 1, Len(s) - 1)) ELSE s

\* str.strip()
Strip(s) == RStrip(LStrip(s))

\* What future.result() does: raise, or return an AuthResult.
Result(authenticated, twofa_required) ==
    [raises |-> "None", authenticated |-> authenticated, twofa_required |-> twofa_required]

Raises(exception) ==
    [raises |-> exception, authenticated |-> FALSE, twofa_required |-> FALSE]

Outcomes ==
    { Raises("ValueError"), Raises("Exception") }
        \cup { Result(a, t) : a \in BOOLEAN, t \in BOOLEAN }

\* the results with authenticated = false
NotAuthenticated == { Result(FALSE, t) : t \in BOOLEAN }

\* the outcome of a future that is still running
NoOutcome == Raises("pending")

\* The widget state a handler works on; signals and displayed collect the
\* signals it emits and the display_form calls it makes.
Widgets ==
    [username |-> username, password |-> password,
     sensitive |-> login_button_sensitive,
     login_error |-> login_error, login_spinner |-> login_spinner,
     active_form |-> active_form, visible_child |-> visible_child,
     tfa_code |-> tfa_code, tfa_error |-> tfa_error, tfa_spinner |-> tfa_spinner,
     signals |-> << >>, displayed |-> << >>]

\* the handler's result becomes the next state
Commit(st) ==
    /\ username' = st.username
    /\ password' = st.password
    /\ login_button_sensitive' = st.sensitive
    /\ login_error' = st.login_error
    /\ login_spinner' = st.login_spinner
    /\ active_form' = st.active_form
    /\ visible_child' = st.visible_child
    /\ tfa_code' = st.tfa_code
    /\ tfa_error' = st.tfa_error
    /\ tfa_spinner' = st.tfa_spinner

Emit(st, signal) == [st EXCEPT !.signals = Append(@, signal)]

\* Mutant: the button is unlocked as soon as one of the two is provided.
OnEntryChangedOr(st) ==
    LET is_username_provided == Len(Strip(st.username)) > 0
        is_password_provided == Len(Strip(st.password)) > 0
    IN [st EXCEPT !.sensitive = is_username_provided \/ is_password_provided]

\* LoginForm._on_entry_changed
OnEntryChanged(st) ==
    LET is_username_provided == Len(Strip(st.username)) > 0
        is_password_provided == Len(Strip(st.password)) > 0
    IN [st EXCEPT !.sensitive = is_username_provided /\ is_password_provided]

\* LoginForm.username setter: Gtk.Entry.set_text emits "changed" when the
\* text differs from the current one.
SetUsername(st, text) ==
    IF st.username = text THEN st
    ELSE OnEntryChanged([st EXCEPT !.username = text])

\* LoginForm.password setter
SetPassword(st, text) ==
    IF st.password = text THEN st
    ELSE OnEntryChanged([st EXCEPT !.password = text])

\* Mutant: reset() leaves the entries as they are.
LoginFormResetKeepsEntries(st) == [st EXCEPT !.login_error = ""]

\* LoginForm.reset
LoginFormReset(st) ==
    SetPassword(SetUsername([st EXCEPT !.login_error = ""], << >>), << >>)

\* Mutant: reset() leaves the 2FA code as it is.
TwoFactorAuthFormResetKeepsCode(st) == [st EXCEPT !.tfa_error = ""]

\* TwoFactorAuthForm.reset
TwoFactorAuthFormReset(st) ==
    [st EXCEPT !.tfa_error = "", !.tfa_code = << >>]

\* Mutant: the form is reset but not made the visible child.
DisplayFormNotShown(st, form) ==
    LET shown == [st EXCEPT !.active_form = form, !.displayed = Append(@, form)]
    IN IF form = "login_form" THEN LoginFormReset(shown)
       ELSE TwoFactorAuthFormReset(shown)

\* LoginWidget.display_form
DisplayForm(st, form) ==
    LET shown == [st EXCEPT !.active_form = form, !.visible_child = form,
                            !.displayed = Append(@, form)]
    IN IF form = "login_form" THEN LoginFormReset(shown)
       ELSE TwoFactorAuthFormReset(shown)

\* LoginWidget._signal_user_logged_in
SignalUserLoggedIn(st) == Emit(st, "user-logged-in")

\* Mutant: the 2FA form is shown whether or not 2FA is required.
OnUserAuthenticatedAlways2FA(st, two_factor_auth_required) ==
    DisplayForm(st, "2fa_form")

\* Mutant: the user is logged in whether or not 2FA is required.
OnUserAuthenticatedNever2FA(st, two_factor_auth_required) ==
    SignalUserLoggedIn(st)

\* LoginWidget._on_user_authenticated
OnUserAuthenticated(st, two_factor_auth_required) ==
    IF ~two_factor_auth_required
    THEN SignalUserLoggedIn(st)
    ELSE DisplayForm(st, "2fa_form")

\* Mutant: a successful 2FA does not log the user in.
OnTwoFactorAuthSuccessfulSilent(st) == st

\* LoginWidget._on_two_factor_auth_successful
OnTwoFactorAuthSuccessful(st) == SignalUserLoggedIn(st)

\* Mutant: the expiry is signalled but the login form is not brought back.
OnSessionExpiredDuring2faIgnored(st) == st

\* LoginWidget._on_session_expired_during_2fa
OnSessionExpiredDuring2fa(st) == DisplayForm(st, "login_form")

\* LoginForm._signal_user_authenticated
SignalUserAuthenticated(st, two_factor_auth_required) ==
    LoginFormReset(
        OnUserAuthenticated(Emit(st, "user-authenticated"), two_factor_auth_required))

\* Mutant: a ValueError is swallowed without a message; a rejection resets the form.
OnLoginResultSilent(st, outcome) ==
    LET stopped == [st EXCEPT !.login_spinner = FALSE]
    IN IF outcome.raises = "ValueError" THEN stopped
       ELSE IF outcome.raises # "None" THEN stopped
       ELSE IF outcome.authenticated
       THEN SignalUserAuthenticated(stopped, outcome.twofa_required)
       ELSE LoginFormReset(Emit([stopped EXCEPT !.login_error = "Wrong credentials."],
                                "login-error"))

\* LoginForm._on_login_result; the finally clause stops the spinner on every path.
OnLoginResult(st, outcome) ==
    LET stopped == [st EXCEPT !.login_spinner = FALSE]
    IN IF outcome.raises = "ValueError"
       THEN Emit([stopped EXCEPT !.login_error = "Invalid username."], "login-error")
       ELSE IF outcome.raises # "None"
       THEN stopped                      \* the exception leaves the handler
       ELSE IF outcome.authenticated
       THEN SignalUserAuthenticated(stopped, outcome.twofa_required)
       ELSE Emit([stopped EXCEPT !.login_error = "Wrong credentials."], "login-error")

\* TwoFactorAuthForm._signal_two_factor_auth_successful
SignalTwoFactorAuthSuccessful(st) ==
    TwoFactorAuthFormReset(
        OnTwoFactorAuthSuccessful(Emit(st, "two-factor-auth-successful")))

\* Mutant: a wrong code resets the 2FA form after setting the message.
On2faSubmissionResultWrongCodeResets(st, outcome) ==
    LET stopped == [st EXCEPT !.tfa_spinner = FALSE]
    IN IF outcome.raises # "None"
       THEN stopped
       ELSE IF ~outcome.authenticated
       THEN OnSessionExpiredDuring2fa(
                Emit([stopped EXCEPT !.tfa_error = "Session expired. Please login again."],
                     "session-expired"))
       ELSE IF outcome.twofa_required
       THEN [stopped EXCEPT !.tfa_error = "Wrong 2FA code.", !.tfa_code = << >>]
       ELSE SignalTwoFactorAuthSuccessful(stopped)

\* TwoFactorAuthForm._on_2fa_submission_result
On2faSubmissionResult(st, outcome) ==
    LET stopped == [st EXCEPT !.tfa_spinner = FALSE]
    IN IF outcome.raises # "None"
       THEN stopped                      \* the exception leaves the handler
       ELSE IF ~outcome.authenticated
       THEN OnSessionExpiredDuring2fa(
                Emit([stopped EXCEPT !.tfa_error = "Session expired. Please login again."],
                     "session-expired"))
       ELSE IF outcome.twofa_required
       THEN [stopped EXCEPT !.tfa_error = "Wrong 2FA code."]
       ELSE SignalTwoFactorAuthSuccessful(stopped)

\* Mutant: the done-callback runs the result handler itself.
DoneCallbackRunsHandler(st, method, outcome) ==
    IF method = "login" THEN OnLoginResult(st, outcome)
    ELSE On2faSubmissionResult(st, outcome)

\* The done-callback, lambda future: GLib.idle_add(handler, future), as far
\* as the widgets go: it touches none.
DoneCallback(st, method, outcome) == st

-----------------------------------------------------------------------------
(* Login: state and operations *)

\* What the last operation was: a result handler ("login_result",
\* "2fa_result") with the future and the outcome it was given, or any other
\* operation ("other"); with the signals emitted and the display_form calls
\* made by it.
Last(op, fut, outcome, st) ==
    [op |-> op, fut |-> fut, outcome |-> outcome,
     signals |-> st.signals, displayed |-> st.displayed]

\* A call of the controller with its arguments; NoCall when there is none.
NoCall == [method |-> "None", args |-> << >>]
Call(method, args) == [method |-> method, args |-> args]

\* No observer is attached.
ObserverOff ==
    login_obs = [op |-> "off", call |-> NoCall, shown |-> << >>, logged_in |-> 0]

\* An observer is attached at construction.
ObserverOn ==
    login_obs = [op |-> "init", call |-> NoCall, shown |-> << >>, logged_in |-> 0]

\* What an attached observer records of a step: whether it was Enter in an
\* entry of the login form ("press_enter") or another operation ("other");
\* the call of the controller the step made, with the username and password
\* or the code the form held; for each submission, the form that was the
\* visible child when it was made; and the number of user-logged-in
\* emissions since the last submission.
Observe(op) ==
    IF login_obs.op = "off" THEN UNCHANGED login_obs
    ELSE LET submits == Len(futures') = Len(futures) + 1
             emitted == Cardinality({i \in 1..Len(login_last'.signals) :
                                        login_last'.signals[i] = "user-logged-in"})
         IN login_obs' =
              [op |-> op,
               call |-> IF ~submits THEN NoCall
                        ELSE IF futures'[Len(futures')].method = "login"
                        THEN Call("login", << username, password >>)
                        ELSE Call("submit_2fa_code", << tfa_code >>),
               shown |-> IF submits THEN Append(login_obs.shown, visible_child)
                         ELSE login_obs.shown,
               logged_in |-> IF submits THEN 0 ELSE login_obs.logged_in + emitted]

\* LoginWidget.__init__, LoginForm.__init__, TwoFactorAuthForm.__init__; the
\* stack shows the first child added to it.
LoginInit ==
    /\ username = << >>
    /\ password = << >>
    /\ login_button_sensitive = FALSE
    /\ login_error = ""
    /\ login_spinner = FALSE
    /\ active_form = "None"
    /\ visible_child = "login_form"
    /\ tfa_code = << >>
    /\ tfa_error = ""
    /\ tfa_spinner = FALSE
    /\ futures = << >>
    /\ idle_queue = << >>
    /\ twofa_due = FALSE
    /\ login_last = [op |-> "init", fut |-> 0, outcome |-> NoOutcome,
                     signals |-> << >>, displayed |-> << >>]

\* The user types in the username entry (or the username setter is used).
EditUsername(text) ==
    /\ LET st == SetUsername(Widgets, text)
       IN /\ Commit(st)
          /\ login_last' = Last("other", 0, NoOutcome, st)
    /\ UNCHANGED <<futures, idle_queue, twofa_due>>
    /\ Observe("other")
    /\ UNCHANGED nonLoginVars

\* The user types in the password entry (or the password setter is used).
EditPassword(text) ==
    /\ LET st == SetPassword(Widgets, text)
       IN /\ Commit(st)
          /\ login_last' = Last("other", 0, NoOutcome, st)
    /\ UNCHANGED <<futures, idle_queue, twofa_due>>
    /\ Observe("other")
    /\ UNCHANGED nonLoginVars

\* The user types in the 2FA code entry (or the two_factor_auth_code setter is used).
Edit2faCode(code) ==
    /\ LET st == [Widgets EXCEPT !.tfa_code = code]
       IN /\ Commit(st)
          /\ login_last' = Last("other", 0, NoOutcome, st)
    /\ UNCHANGED <<futures, idle_queue, twofa_due>>
    /\ Observe("other")
    /\ UNCHANGED nonLoginVars

\* controller.login / controller.submit_2fa_code returns a future and
\* add_done_callback is called on it.  The worker may have completed the
\* future already (early is its outcome): add_done_callback then runs the
\* callback at once, which schedules the result handler with GLib.idle_add.
SubmitToController(method, early) ==
    LET fut == Len(futures) + 1
    IN IF early = NoOutcome
       THEN /\ futures' = Append(futures, [method |-> method, state |-> "running",
                                           outcome |-> NoOutcome])
            /\ UNCHANGED idle_queue
       ELSE /\ futures' = Append(futures, [method |-> method, state |-> "done",
                                           outcome |-> early])
            /\ idle_queue' = Append(idle_queue, fut)

\* LoginForm._on_login_button_clicked: the button is clicked, or
\* submit_login() is called.
LoginButtonClicked(early) ==
    /\ Len(futures) < MaxSubmissions
    /\ LET st == [Widgets EXCEPT !.login_spinner = TRUE]
       IN /\ Commit(st)
          /\ SubmitToController("login", early)
          /\ login_last' = Last("other", 0, NoOutcome, st)
    /\ UNCHANGED twofa_due
    /\ Observe("other")
    /\ UNCHANGED nonLoginVars

\* Mutant: Enter clicks the button whether it is sensitive or not.
PressEnterAlways(early) ==
    /\ Len(futures) < MaxSubmissions
    /\ LET st == [Widgets EXCEPT !.login_spinner = TRUE]
       IN /\ Commit(st)
          /\ SubmitToController("login", early)
          /\ login_last' = Last("other", 0, NoOutcome, st)
    /\ UNCHANGED twofa_due
    /\ Observe("press_enter")
    /\ UNCHANGED nonLoginVars

\* LoginForm._on_press_enter: Enter in the username or password entry.
PressEnter(early) ==
    /\ Len(futures) < MaxSubmissions
    /\ IF ~login_button_sensitive
       THEN /\ login_last' = Last("other", 0, NoOutcome, Widgets)
            /\ early = NoOutcome
            /\ UNCHANGED <<username, password, login_button_sensitive, login_error,
                           login_spinner, active_form, visible_child, tfa_code,
                           tfa_error, tfa_spinner, futures, idle_queue>>
       ELSE LET st == [Widgets EXCEPT !.login_spinner = TRUE]
            IN /\ Commit(st)
               /\ SubmitToController("login", early)
               /\ login_last' = Last("other", 0, NoOutcome, st)
    /\ UNCHANGED twofa_due
    /\ Observe("press_enter")
    /\ UNCHANGED nonLoginVars

\* TwoFactorAuthForm._on_2fa_submission_button_clicked: the button is clicked,
\* Enter is pressed in the code entry, or submit_two_factor_auth() is called.
TwoFaSubmissionButtonClicked(early) ==
    /\ Len(futures) < MaxSubmissions
    /\ LET st == [Widgets EXCEPT !.tfa_spinner = TRUE]
       IN /\ Commit(st)
          /\ SubmitToController("submit_2fa_code", early)
          /\ login_last' = Last("other", 0, NoOutcome, st)
    /\ UNCHANGED twofa_due
    /\ Observe("other")
    /\ UNCHANGED nonLoginVars

\* A worker thread completes future fut; its done-callback calls
\* GLib.idle_add(handler, future) and touches nothing else.
FutureDone(fut, outcome) ==
    /\ fut \in 1..Len(futures)
    /\ futures[fut].state = "running"
    /\ futures' = [futures EXCEPT ![fut] = [@ EXCEPT !.state = "done", !.outcome = outcome]]
    /\ idle_queue' = Append(idle_queue, fut)
    /\ LET st == DoneCallback(Widgets, futures[fut].method, outcome)
       IN /\ Commit(st)
          /\ login_last' = Last("other", 0, NoOutcome, st)
    /\ UNCHANGED twofa_due
    /\ Observe("other")
    /\ UNCHANGED nonLoginVars

\* Mutant: the idle source is removed without its handler being run.
IdleDispatchDropsSource ==
    /\ idle_queue # << >>
    /\ idle_queue' = Tail(idle_queue)
    /\ login_last' = Last("other", 0, NoOutcome, Widgets)
    /\ UNCHANGED <<username, password, login_button_sensitive, login_error, login_spinner,
                   active_form, visible_child, tfa_code, tfa_error, tfa_spinner,
                   futures, twofa_due>>
    /\ Observe("other")
    /\ UNCHANGED nonLoginVars

\* The UI loop dispatches the oldest idle source: _on_login_result or
\* _on_2fa_submission_result runs with the future.  The handler returns None
\* (or raises), so the source is removed and the future is dropped with it.
IdleDispatch ==
    /\ idle_queue # << >>
    /\ LET fut == Head(idle_queue)
           outcome == futures[fut].outcome
           st == IF futures[fut].method = "login"
                 THEN OnLoginResult(Widgets, outcome)
                 ELSE On2faSubmissionResult(Widgets, outcome)
       IN /\ Commit(st)
          /\ idle_queue' = Tail(idle_queue)
          /\ futures' = [futures EXCEPT ![fut] = [@ EXCEPT !.state = "handled",
                                                           !.outcome = NoOutcome]]
          /\ login_last' = Last(IF futures[fut].method = "login"
                                THEN "login_result" ELSE "2fa_result",
                                fut, outcome, st)
          /\ twofa_due' =
               IF futures[fut].method = "login"
               THEN (IF outcome.raises = "None" /\ outcome.authenticated
                        /\ outcome.twofa_required
                     THEN TRUE ELSE twofa_due)
               ELSE (IF outcome.raises = "None" /\ ~outcome.authenticated
                     THEN FALSE ELSE twofa_due)
    /\ Observe("other")
    /\ UNCHANGED nonLoginVars

\* LoginWidget.reset
LoginWidgetReset ==
    /\ LET st == DisplayForm(Widgets, "login_form")
       IN /\ Commit(st)
          /\ login_last' = Last("other", 0, NoOutcome, st)
    /\ twofa_due' = FALSE
    /\ UNCHANGED <<futures, idle_queue>>
    /\ Observe("other")
    /\ UNCHANGED nonLoginVars

\* LoginForm.reset, called on the form alone
LoginFormResetCalled ==
    /\ LET st == LoginFormReset(Widgets)
       IN /\ Commit(st)
          /\ login_last' = Last("other", 0, NoOutcome, st)
    /\ UNCHANGED <<futures, idle_queue, twofa_due>>
    /\ Observe("other")
    /\ UNCHANGED nonLoginVars

LoginNext ==
    \/ \E text \in Texts : EditUsername(text)
    \/ \E text \in Texts : EditPassword(text)
    \/ \E code \in Codes : Edit2faCode(code)
    \/ \E early \in Outcomes \cup {NoOutcome} : LoginButtonClicked(early)
    \/ \E early \in Outcomes \cup {NoOutcome} : PressEnter(early)
    \/ \E early \in Outcomes \cup {NoOutcome} : TwoFaSubmissionButtonClicked(early)
    \/ \E fut \in 1..MaxSubmissions, outcome \in Outcomes : FutureDone(fut, outcome)
    \/ IdleDispatch
    \/ LoginWidgetReset
    \/ LoginFormResetCalled

-----------------------------------------------------------------------------
(* GeneralSettings: texts and conversions *)

\* str.upper(), character by character
UpperChar(c) ==
    CASE c = "o" -> "O"
      [] c = "f" -> "F"
      [] c = "u" -> "U"
      [] OTHER -> c

Upper(s) == [i \in 1..Len(s) |-> UpperChar(s[i])]

\* Texts left in the auto-connect entry.
AutoConnectTexts ==
    { << >>, << " " >>,
      << "o", "f", "f" >>, << "O", "f", "f" >>, << "O", "F", "F" >>,
      << " ", "o", "F", "f", " " >>,
      << "o", "f" >>, << "o", " ", "f", "f" >>,
      << "u" >>, << " ", "U", " " >> }

\* Texts left in the pinned-servers entry.
PinnedTexts ==
    { << >>, << "," >>, << " " >>,
      << "u" >>, << "u", ",", "f" >>, << "f", ",", "u" >>,
      << " ", "u", " ", ",", " ", ",", "f", " " >>,
      << "u", ",", "u" >>, << "U", ",", "o" >>, << "o", "," >> }

\* An optional string: None, or a text.
None == [is_none |-> TRUE, text |-> << >>]
Some(text) == [is_none |-> FALSE, text |-> text]

\* GeneralSettings.connect_at_app_startup (getter)
ConnectAtAppStartup(app_config) ==
    IF app_config.connect_at_app_startup.is_none
    THEN << "O", "f", "f" >>
    ELSE app_config.connect_at_app_startup.text

\* Mutant: the setter builds a configuration holding its field alone.
SetConnectAtAppStartupAlone(app_config, newvalue) ==
    [connect_at_app_startup |-> newvalue, tray_pinned_servers |-> << >>]

\* GeneralSettings.connect_at_app_startup (setter): the configuration that is
\* written back.
SetConnectAtAppStartup(app_config, newvalue) ==
    [app_config EXCEPT !.connect_at_app_startup = newvalue]

\* Mutant: the text is stripped but not upper-cased.
AutoConnectNewValueNoUpper(text) ==
    LET newvalue == Strip(text)
    IN IF newvalue = << "O", "F", "F" >> THEN None ELSE Some(newvalue)

\* build_connect_at_app_startup.on_focus_outside_entry: the new value
AutoConnectNewValue(text) ==
    LET newvalue == Upper(Strip(text))
    IN IF newvalue = << "O", "F", "F" >> THEN None ELSE Some(newvalue)

\* Mutant: the pieces are upper-cased but not stripped.
RECURSIVE CleanedServersNoStrip(_)
CleanedServersNoStrip(pieces) ==
    IF pieces = << >> THEN << >>
    ELSE LET cleaned_pinned_server == Upper(Head(pieces))
         IN IF cleaned_pinned_server # << >>
            THEN << cleaned_pinned_server >> \o CleanedServersNoStrip(Tail(pieces))
            ELSE CleanedServersNoStrip(Tail(pieces))

\* for pinned_server in newvalue.split(","): strip, upper, keep if non-empty
RECURSIVE CleanedServers(_)
CleanedServers(pieces) ==
    IF pieces = << >> THEN << >>
    ELSE LET cleaned_pinned_server == Upper(Strip(Head(pieces)))
         IN IF cleaned_pinned_server # << >>
            THEN << cleaned_pinned_server >> \o CleanedServers(Tail(pieces))
            ELSE CleanedServers(Tail(pieces))

\* GeneralSettings.tray_pinned_servers (setter): the configuration that is
\* written back.
SetTrayPinnedServers(app_config, newvalue) ==
    [app_config EXCEPT !.tray_pinned_servers = CleanedServers(Split(newvalue, ","))]

-----------------------------------------------------------------------------
(* GeneralSettings: state and operations *)

\* The configuration before any edit (auto-connect off, nothing pinned); the
\* settings window is not built yet.
SettingsInit ==
    /\ app_configuration = [connect_at_app_startup |-> None, tray_pinned_servers |-> << >>]
    /\ setting_rows = {}
    /\ tray_loaded = << >>
    /\ settings_last = [op |-> "init", text |-> << >>]

\* GeneralSettings.__init__ and build_ui: the auto-connect row is always
\* built, the pinned-servers row only with a tray indicator.
BuildUi(has_tray_indicator) ==
    /\ setting_rows = {}
    /\ setting_rows' = {"connect_at_app_startup"}
                          \cup (IF has_tray_indicator THEN {"tray_pinned_servers"} ELSE {})
    /\ settings_last' = [op |-> "build_ui", text |-> << >>]
    /\ UNCHANGED <<app_configuration, tray_loaded>>
    /\ UNCHANGED nonSettingsVars

\* The auto-connect entry loses focus holding text.
AutoConnectFocusOut(text) ==
    /\ "connect_at_app_startup" \in setting_rows
    /\ app_configuration' = SetConnectAtAppStartup(app_configuration, AutoConnectNewValue(text))
    /\ settings_last' = [op |-> "connect_at_app_startup", text |-> text]
    /\ UNCHANGED <<setting_rows, tray_loaded>>
    /\ UNCHANGED nonSettingsVars

\* The pinned-servers entry loses focus holding text; the row exists only
\* with a tray indicator.  The setter runs, then reload_pinned_servers reads
\* the configuration.
PinnedServersFocusOut(text) ==
    /\ "tray_pinned_servers" \in setting_rows
    /\ app_configuration' = SetTrayPinnedServers(app_configuration, text)
    /\ tray_loaded' = app_configuration'.tray_pinned_servers
    /\ settings_last' = [op |-> "tray_pinned_servers", text |-> text]
    /\ UNCHANGED setting_rows
    /\ UNCHANGED nonSettingsVars

SettingsNext ==
    \/ \E has_tray_indicator \in BOOLEAN : BuildUi(has_tray_indicator)
    \/ \E text \in AutoConnectTexts : AutoConnectFocusOut(text)
    \/ \E text \in PinnedTexts : PinnedServersFocusOut(text)

-----------------------------------------------------------------------------
(* scripts/versions.py: strings and VERSIONS_RE *)

Digits == {"0", "1", "2", "3", "4", "5", "6", "7", "8", "9"}

LowerLetters ==
    {"a", "b", "c", "d", "e", "f", "g", "h", "i", "j", "k", "l", "m",
     "n", "o", "p", "q", "r", "s", "t", "u", "v", "w", "x", "y", "z"}

UpperLetters ==
    {"A", "B", "C", "D", "E", "F", "G", "H", "I", "J", "K", "L", "M",
     "N", "O", "P", "Q", "R", "S", "T", "U", "V", "W", "X", "Y", "Z"}

\* The length of the longest run of characters of class that starts at s[i].
RECURSIVE Run(_, _, _)
Run(s, i, class) ==
    IF i <= Len(s) /\ s[i] \in class THEN 1 + Run(s, i + 1, class) ELSE 0

Max(S) == CHOOSE x \in S : \A y \in S : y <= x

\* The ways the first two [0-9]+ of "[0-9]+.[0-9]+.[0-9]+" can match at the
\* start of s: n1 digits, any character but a newline, n2 digits, any
\* character but a newline, and at least one digit.
NumericMatches(s) ==
    { nn \in (1..Len(s)) \X (1..Len(s)) :
        /\ nn[1] <= Run(s, 1, Digits)
        /\ nn[1] + 1 <= Len(s)
        /\ s[nn[1] + 1] # "\n"
        /\ nn[2] <= Run(s, nn[1] + 2, Digits)
        /\ nn[1] + nn[2] + 2 <= Len(s)
        /\ s[nn[1] + nn[2] + 2] # "\n"
        /\ Run(s, nn[1] + nn[2] + 3, Digits) >= 1 }

\* VERSIONS_RE.match(version): the match starts at the first character and may
\* end anywhere.  Each [0-9]+ takes as many digits as leave a match possible,
\* the first one first; the optional group ([a-z]+[0-9]+) is taken when it
\* matches right after the numeric part.  prelease is << >> when the group
\* did not take part in the match.
VersionsReMatch(version) ==
    IF NumericMatches(version) = {}
    THEN [matched |-> FALSE, version |-> << >>, prelease |-> << >>]
    ELSE LET n1 == Max({ nn[1] : nn \in NumericMatches(version) })
             n2 == Max({ nn[2] : nn \in { mm \in NumericMatches(version) : mm[1] = n1 } })
             n3 == Run(version, n1 + n2 + 3, Digits)
             e  == n1 + n2 + 2 + n3
             l  == Run(version, e + 1, LowerLetters)
             d  == Run(version, e + 1 + l, Digits)
         IN [matched  |-> TRUE,
             version  |-> SubSeq(version, 1, e),
             prelease |-> IF l >= 1 /\ d >= 1
                          THEN SubSeq(version, e + 1, e + l + d)
                          ELSE << >>]

\* What a call does: raise, or return a value.
Returns(value) == [raises |-> "None", value |-> value]
RaisesError(exception) == [raises |-> exception, value |-> << >>]

\* rebuild_version(version, delim)
RebuildVersion(version, delim) ==
    LET version_elems == VersionsReMatch(version)
    IN IF ~version_elems.matched THEN RaisesError("ValueError")
       ELSE IF version_elems.prelease # << >>
            THEN Returns(version_elems.version \o << delim >> \o version_elems.prelease)
            ELSE Returns(version_elems.version)

\* Version strings: a digit, a dot, a lower-case letter and a character that
\* is none of these.
VersionChars == {"1", ".", "c", "X"}
VersionStrings == UNION { [1..n -> VersionChars] : n \in 0..MaxVersionLen }

\* build_deb and build_rpm pass "~", build_mkd passes "-".
Delims == {"~", "-"}

-----------------------------------------------------------------------------
(* scripts/versions.py: manifest values and NECESSARY_FIELDS *)

\* A manifest value: a string, a number, or a list whose items are strings
\* or numbers (items holds the type of each item).
Str(text) == [type |-> "str", text |-> text, items |-> << >>]
Number == [type |-> "float", text |-> << >>, items |-> << >>]
List(items) == [type |-> "list", text |-> << >>, items |-> items]

DigitValue(c) ==
    CASE c = "0" -> 0 [] c = "1" -> 1 [] c = "2" -> 2 [] c = "3" -> 3 [] c = "4" -> 4
      [] c = "5" -> 5 [] c = "6" -> 6 [] c = "7" -> 7 [] c = "8" -> 8 [] c = "9" -> 9

\* The ways a directive of one or two digits matches at s[i], as <<next
\* position, value>>: two digits when the pair is one of the directive's
\* two-digit forms, one digit when it is one of its one-digit forms.
TwoDigits(s, i, firsts, seconds) ==
    IF i + 1 <= Len(s) /\ s[i] \in firsts /\ s[i + 1] \in seconds
    THEN { << i + 2, 10 * DigitValue(s[i]) + DigitValue(s[i + 1]) >> }
    ELSE {}

OneDigit(s, i, digits) ==
    IF i <= Len(s) /\ s[i] \in digits THEN { << i + 1, DigitValue(s[i]) >> } ELSE {}

NonZeroDigits == Digits \ {"0"}

\* %m: 1[0-2]|0[1-9]|[1-9]
MonthMatches(s, i) ==
    TwoDigits(s, i, {"1"}, {"0", "1", "2"}) \cup TwoDigits(s, i, {"0"}, NonZeroDigits)
        \cup OneDigit(s, i, NonZeroDigits)

\* %d: 3[0-1]|[1-2]\d|0[1-9]|[1-9]| [1-9]
DayMatches(s, i) ==
    TwoDigits(s, i, {"3"}, {"0", "1"}) \cup TwoDigits(s, i, {"1", "2"}, Digits)
        \cup TwoDigits(s, i, {"0"}, NonZeroDigits) \cup OneDigit(s, i, NonZeroDigits)
        \cup (IF i <= Len(s) /\ s[i] = " " THEN OneDigit(s, i + 1, NonZeroDigits) ELSE {})

\* %H: 2[0-3]|[0-1]\d|\d
HourMatches(s, i) ==
    TwoDigits(s, i, {"2"}, {"0", "1", "2", "3"}) \cup TwoDigits(s, i, {"0", "1"}, Digits)
        \cup OneDigit(s, i, Digits)

\* %M: [0-5]\d|\d
MinuteMatches(s, i) ==
    TwoDigits(s, i, {"0", "1", "2", "3", "4", "5"}, Digits) \cup OneDigit(s, i, Digits)

DaysInMonth(year, month) ==
    IF month = 2
    THEN (IF (year % 4 = 0 /\ year % 100 # 0) \/ year % 400 = 0 THEN 29 ELSE 28)
    ELSE IF month \in {4, 6, 9, 11} THEN 30 ELSE 31

\* datetime.datetime.strptime(s, '%Y/%m/%d %H:%M') does not raise: four
\* digits, "/", month, "/", day, one or more whitespace characters, hour, ":",
\* minute, nothing left over, and the day exists in that month of that year.
Strptime(s) ==
    /\ Run(s, 1, Digits) >= 4
    /\ Len(s) >= 5 /\ s[5] = "/"
    /\ \E m \in MonthMatches(s, 6) :
          /\ m[1] <= Len(s) /\ s[m[1]] = "/"
          /\ \E d \in DayMatches(s, m[1] + 1) :
                /\ Run(s, d[1], {" ", "\n"}) >= 1
                /\ \E h \in HourMatches(s, d[1] + Run(s, d[1], {" ", "\n"})) :
                      /\ h[1] <= Len(s) /\ s[h[1]] = ":"
                      /\ \E mi \in MinuteMatches(s, h[1] + 1) : mi[1] = Len(s) + 1
                /\ LET year == 1000 * DigitValue(s[1]) + 100 * DigitValue(s[2])
                                 + 10 * DigitValue(s[3]) + DigitValue(s[4])
                   IN year >= 1 /\ d[2] <= DaysInMonth(year, m[2])

\* validate_date_time(v): strptime raises TypeError for a value that is not a
\* string, which the except clause does not catch.
ValidateDateTime(v) ==
    IF v.type # "str" THEN "TypeError"
    ELSE IF Strptime(v.text) THEN "True" ELSE "False"

Letters == LowerLetters \cup UpperLetters

\* re.match("[a-zA-Z]+ [a-zA-Z]+", s) is not None
AuthorMatches(s) ==
    LET n == Run(s, 1, Letters)
    IN n >= 1 /\ n + 1 <= Len(s) /\ s[n + 1] = " " /\ Run(s, n + 2, Letters) >= 1

\* re.match("^(" + words + ")$", s) is not None; $ also matches before a
\* newline that ends the string.
WordMatches(s, words) ==
    \E w \in words : s = w \/ s = w \o << "\n" >>

\* re.match(r"[a-zA-Z+_\-.0-9]+@[a-zA-Z_0-9]+\.[a-zA-Z_0-9]+", s) is not None
EmailMatches(s) ==
    LET local == Letters \cup Digits \cup {"+", "_", "-", "."}
        word  == Letters \cup Digits \cup {"_"}
        n == Run(s, 1, local)
        k == Run(s, n + 2, word)
    IN /\ n >= 1 /\ n + 1 <= Len(s) /\ s[n + 1] = "@"
       /\ k >= 1 /\ n + k + 2 <= Len(s) /\ s[n + k + 2] = "."
       /\ Run(s, n + k + 3, word) >= 1

UrgencyWords == { << "l", "o", "w" >>, << "m", "e", "d", "i", "u", "m" >>,
                  << "u", "r", "g", "e", "n", "t" >> }
StabilityWords == { << "u", "n", "s", "t", "a", "b", "l", "e" >>,
                    << "s", "t", "a", "b", "l", "e" >> }

\* re.match(pattern, v) raises TypeError for a value that is not a string.
ReMatch(v, matches) ==
    IF v.type # "str" THEN "TypeError" ELSE IF matches THEN "True" ELSE "False"

RecognisedFields ==
    {"version", "time", "author", "urgency", "stability", "description", "email"}

\* NECESSARY_FIELDS[field](value): "True", "False", or the exception raised.
Validator(field, v) ==
    CASE field = "version"     -> ReMatch(v, VersionsReMatch(v.text).matched)
      [] field = "time"        -> ValidateDateTime(v)
      [] field = "author"      -> ReMatch(v, AuthorMatches(v.text))
      [] field = "urgency"     -> ReMatch(v, WordMatches(v.text, UrgencyWords))
      [] field = "stability"   -> ReMatch(v, WordMatches(v.text, StabilityWords))
      [] field = "description" ->
            IF v.type = "list" /\ \A i \in 1..Len(v.items) : v.items[i] = "str"
            THEN "True" ELSE "False"
      [] field = "email"       -> ReMatch(v, EmailMatches(v.text))

\* Mutant: a field that is not recognised is skipped.
RECURSIVE ValidateReleaseSkipsUnknown(_)
ValidateReleaseSkipsUnknown(release) ==
    IF release = << >> THEN "None"
    ELSE LET field == Head(release).field
             value == Head(release).value
         IN IF field \notin RecognisedFields THEN ValidateReleaseSkipsUnknown(Tail(release))
            ELSE IF Validator(field, value) = "TypeError" THEN "TypeError"
            ELSE IF Validator(field, value) = "False" THEN "ValueError"
            ELSE ValidateReleaseSkipsUnknown(Tail(release))

\* for field, value in release.items(): the exception raised, or "None".  A
\* release is the sequence of its items in the dictionary's order.
RECURSIVE ValidateRelease(_)
ValidateRelease(release) ==
    IF release = << >> THEN "None"
    ELSE LET field == Head(release).field
             value == Head(release).value
         IN IF field \notin RecognisedFields THEN "ValueError"
            ELSE IF Validator(field, value) = "TypeError" THEN "TypeError"
            ELSE IF Validator(field, value) = "False" THEN "ValueError"
            ELSE ValidateRelease(Tail(release))

\* validate_versions(versions): the exception raised, or "None"
RECURSIVE ValidateVersions(_)
ValidateVersions(versions) ==
    IF versions = << >> THEN "None"
    ELSE IF ValidateRelease(Head(versions)) # "None" THEN ValidateRelease(Head(versions))
    ELSE ValidateVersions(Tail(versions))

-----------------------------------------------------------------------------
(* scripts/versions.py: build_mkd, build_deb, build_rpm *)

\* field in release
Has(release, field) == \E i \in 1..Len(release) : release[i].field = field

\* release[field], for a field the release holds
Lookup(release, field) ==
    release[CHOOSE i \in 1..Len(release) : release[i].field = field].value

\* "\n".join([prefix + i for i in release["description"]]): the exception
\* raised, or "None".  A number is not iterable, and a string prefix cannot
\* be added to a number; the characters of a string are strings.
JoinDescription(release) ==
    IF ~Has(release, "description") THEN "KeyError"
    ELSE LET v == Lookup(release, "description")
         IN IF v.type = "float" THEN "TypeError"
            ELSE IF \E i \in 1..Len(v.items) : v.items[i] # "str" THEN "TypeError"
            ELSE "None"

\* rebuild_version(release["version"], delim=delim)
RebuildField(release, delim) ==
    IF ~Has(release, "version") THEN "KeyError"
    ELSE LET v == Lookup(release, "version")
         IN IF v.type # "str" THEN "TypeError" ELSE RebuildVersion(v.text, delim).raises

\* datetime.datetime.strptime(release["time"], '%Y/%m/%d %H:%M')
ConvertTime(release) ==
    IF ~Has(release, "time") THEN "KeyError"
    ELSE LET v == Lookup(release, "time")
         IN IF v.type # "str" THEN "TypeError"
            ELSE IF Strptime(v.text) THEN "None" ELSE "ValueError"

\* template.format(**release) for a template that uses fields
Format(release, fields) ==
    IF \A f \in fields : Has(release, f) THEN "None" ELSE "KeyError"

\* The body of the builders' loop for one release, in the code's order.
RenderRelease(release, delim, fields) ==
    IF JoinDescription(release) # "None" THEN JoinDescription(release)
    ELSE IF RebuildField(release, delim) # "None" THEN RebuildField(release, delim)
    ELSE IF ConvertTime(release) # "None" THEN ConvertTime(release)
    ELSE Format(release, fields)

\* for release in versions
RECURSIVE RenderAll(_, _, _)
RenderAll(versions, delim, fields) ==
    IF versions = << >> THEN "None"
    ELSE IF RenderRelease(Head(versions), delim, fields) # "None"
         THEN RenderRelease(Head(versions), delim, fields)
         ELSE RenderAll(Tail(versions), delim, fields)

\* The fields of MARKDOWN_TEMPLATE, of DEB_CHANGELOG_TEMPLATE (build_deb
\* sets name itself) and of build_rpm's changelog_template.
MkdFields == {"version", "time", "description"}
DebFields == {"version", "stability", "urgency", "description", "author", "email", "time"}
RpmFields == {"time", "author", "email", "version", "description"}

\* build_mkd(outpath, versions): the exception raised, or "None"
BuildMkd(versions) == RenderAll(versions, "-", MkdFields)

\* build_deb(outpath, versions, name)
BuildDeb(versions) == RenderAll(versions, "~", DebFields)

\* build_rpm(outpath, versions, template), for a template that uses the
\* variables the docstring names: versions[0]["version"] is rebuilt first.
BuildRpm(versions) ==
    IF versions = << >> THEN "IndexError"
    ELSE IF RebuildField(versions[1], "~") # "None" THEN RebuildField(versions[1], "~")
    ELSE RenderAll(versions, "~", RpmFields)

-----------------------------------------------------------------------------
(* scripts/versions.py: the calls *)

\* One item of a release: a field and its value.
Item(field, value) == [field |-> field, value |-> value]

\* Items of a manifest: values the validators accept, values they do not,
\* and a field that is not recognised.
Items ==
    { Item("version", Str(<< "1", ".", "2", ".", "3" >>)),
      Item("version", Number),
      Item("time", Str(<< "2", "0", "2", "3", "/", "0", "1", "/", "0", "5", " ", "0", "7", ":", "0", "5" >>)),
      Item("time", Str(<< "2", "0", "2", "3", "/", "1", "/", "5", " ", "7", ":", "5" >>)),
      Item("time", Str(<< "2", "0", "2", "3", "/", "0", "2", "/", "3", "0", " ", "0", "7", ":", "0", "5" >>)),
      Item("author", Str(<< "a" >>)),
      Item("urgency", Str(<< "l", "o", "w" >>)),
      Item("stability", Str(<< "b", "e", "t", "a" >>)),
      Item("description", List(<< "str", "str" >>)),
      Item("description", List(<< "str", "float" >>)),
      Item("email", Str(<< "a", "@", "b", ".", "c" >>)),
      Item("name", Str(<< "a" >>)) }

\* The releases that hold items in their order, a new release starting after
\* each position in cuts.
RECURSIVE GroupFrom(_, _, _, _)
GroupFrom(items, cuts, i, release) ==
    IF i > Len(items) THEN (IF release = << >> THEN << >> ELSE << release >>)
    ELSE IF i \in cuts
         THEN << Append(release, items[i]) >> \o GroupFrom(items, cuts, i + 1, << >>)
         ELSE GroupFrom(items, cuts, i + 1, Append(release, items[i]))

\* Manifests of up to MaxItems items: a list of releases, each a dictionary
\* that holds a field once.
Manifests ==
    { versions \in { GroupFrom(ic[1], ic[2], 1, << >>) :
                        ic \in (UNION { [1..n -> Items] : n \in 0..MaxItems })
                                  \X (SUBSET (1..(MaxItems - 1))) } :
        \A r \in 1..Len(versions) : \A i, j \in 1..Len(versions[r]) :
            versions[r][i].field = versions[r][j].field => i = j }

\* A release that holds every field of NECESSARY_FIELDS with a value its
\* validator accepts.
FullRelease ==
    << Item("version", Str(<< "1", ".", "2", ".", "3", "r", "c", "1" >>)),
       Item("time", Str(<< "2", "0", "2", "3", "/", "0", "1", "/", "0", "5", " ", "0", "7", ":", "0", "5" >>)),
       Item("author", Str(<< "a", " ", "b" >>)),
       Item("urgency", Str(<< "l", "o", "w" >>)),
       Item("stability", Str(<< "s", "t", "a", "b", "l", "e" >>)),
       Item("description", List(<< "str", "str" >>)),
       Item("email", Str(<< "a", "@", "b", ".", "c" >>)) >>

\* The release without one field.
Without(field) ==
    LET keep == {i \in 1..Len(FullRelease) : FullRelease[i].field # field}
        Nth[n \in 0..Len(FullRelease)] ==
            IF n = 0 THEN << >>
            ELSE IF n \in keep THEN Append(Nth[n - 1], FullRelease[n]) ELSE Nth[n - 1]
    IN Nth[Len(FullRelease)]

\* Releases the builders are given: the full one, and the ones that lack a
\* field.
Releases == {FullRelease} \cup {Without(field) : field \in RecognisedFields}

BuildInputs == UNION { [1..n -> Releases] : n \in 0..MaxReleases }

ScriptInit ==
    script_last = [op |-> "init", version |-> << >>, delim |-> "", versions |-> << >>,
                   raises |-> "None", value |-> << >>]

\* The script runs once.  rebuild_version(version, delim) is called.
RebuildVersionCalled ==
    /\ script_last.op = "init"
    /\ \E version \in VersionStrings, delim \in Delims :
          script_last' = [op |-> "rebuild_version", version |-> version, delim |-> delim,
                          versions |-> << >>,
                          raises |-> RebuildVersion(version, delim).raises,
                          value |-> RebuildVersion(version, delim).value]
    /\ UNCHANGED nonScriptVars

\* validate_versions(versions) is called.
ValidateVersionsCalled ==
    /\ script_last.op = "init"
    /\ \E versions \in Manifests :
          script_last' = [op |-> "validate_versions", version |-> << >>, delim |-> "",
                          versions |-> versions,
                          raises |-> ValidateVersions(versions), value |-> << >>]
    /\ UNCHANGED nonScriptVars

\* validate_versions(versions) is called, then build_deb, build_mkd and
\* build_rpm are called with the same manifest: value holds what each raises.
BuildCalled ==
    /\ script_last.op = "init"
    /\ \E versions \in BuildInputs :
          script_last' = [op |-> "build", version |-> << >>, delim |-> "",
                          versions |-> versions,
                          raises |-> ValidateVersions(versions),
                          value |-> << BuildDeb(versions), BuildMkd(versions),
                                       BuildRpm(versions) >>]
    /\ UNCHANGED nonScriptVars

ScriptNext ==
    \/ RebuildVersionCalled
    \/ ValidateVersionsCalled
    \/ BuildCalled

Init == AppInit /\ LoginInit /\ ObserverOff /\ SettingsInit /\ ScriptInit

InitObserved == AppInit /\ LoginInit /\ ObserverOn /\ SettingsInit /\ ScriptInit

SpecApp == Init /\ [][AppNext]_vars

SpecLogin == Init /\ [][LoginNext]_vars

SpecSettings == Init /\ [][SettingsNext]_vars

SpecScript == Init /\ [][ScriptNext]_vars

\* The UI loop keeps running: a pending idle source is eventually dispatched.
SpecLoginFair == SpecLogin /\ WF_vars(IdleDispatch)

SpecLoginObserved == InitObserved /\ [][LoginNext]_vars

-----------------------------------------------------------------------------
(* App: properties *)

\* callbacks of the requests submitted while the window did not exist yet
PreWindow == {k \in 1..Len(submitted) : ~submitted[k].window}

\* number of obj.connect calls made with callback k
ConnCount(k) == Cardinality({i \in 1..Len(connections) : connections[i].callback = k})

QueuedCallbacks == {signal_connect_queue[i].callback : i \in 1..Len(signal_connect_queue)}

FailedCallbacks == {f.callback : f \in failures}

\* the connections of pre-window requests are made in submission order
PreWindowInOrder ==
    \A i, j \in 1..Len(connections) :
        (i < j /\ connections[i].callback \in PreWindow
               /\ connections[j].callback \in PreWindow)
            => connections[i].callback < connections[j].callback

\* the dotted path of the spec resolves, and to something that is no GObject
NotGObjectTarget(signal_spec) ==
    LET parts == Split(signal_spec, "::")
    IN /\ Len(parts) = 2
       /\ LET walked == GetAttrs(<< >>, Split(parts[1], "."))
          IN walked.error = "None" /\ WidgetTree[walked.obj] # "GObject"

\* C1 as stated: once the window exists (whatever activations and later
\* queue_signal_connect calls follow), every request queued before window
\* creation has been connected exactly once, in submission order.
C1_Original ==
    /\ window => \A k \in PreWindow : ConnCount(k) = 1
    /\ PreWindowInOrder

\* C1 (amended): a request queued before window creation is never connected
\* before the window exists, is connected at most once, and in submission
\* order; once the window exists, every such request with no failed request
\* at or before it has been connected exactly once, and one that is neither
\* connected nor failed is still queued.
C1_PreWindowRequests ==
    /\ ~window => connections = << >>
    /\ \A k \in PreWindow : ConnCount(k) <= 1
    /\ PreWindowInOrder
    /\ window =>
         \A k \in PreWindow :
            /\ (\A j \in PreWindow : j <= k => j \notin FailedCallbacks)
                  => ConnCount(k) = 1
            /\ (ConnCount(k) = 0 /\ k \notin FailedCallbacks)
                  => k \in QueuedCallbacks

\* C1 witness: two requests queued before the window, both connected, then a
\* second activation and a later request.
C1_Witness ==
    /\ window
    /\ Cardinality(PreWindow) = 2
    /\ \A k \in PreWindow : ConnCount(k) = 1
    /\ NumActivations = 2
    /\ Len(submitted) = 3

\* C2 as stated: a queue_signal_connect call made while the window exists has
\* connected its callback when it returns, and the queue is empty.
C2_Original ==
    (app_last.op = "queue_signal_connect" /\ app_last.window)
        => /\ ConnCount(app_last.callback) = 1
           /\ signal_connect_queue = << >>

\* C2 (amended): a queue_signal_connect call made while the window exists
\* that raises nothing has connected its callback, as the last connection,
\* and left the queue empty; one that raises has not connected its callback,
\* which is then either the failed request (queue empty) or still the last
\* element of the queue.
C2_ConnectWithWindow ==
    (app_last.op = "queue_signal_connect" /\ app_last.window)
        => /\ app_last.raised = "None" =>
                /\ ConnCount(app_last.callback) = 1
                /\ connections[Len(connections)].callback = app_last.callback
                /\ signal_connect_queue = << >>
           /\ app_last.raised # "None" =>
                /\ ConnCount(app_last.callback) = 0
                /\ \/ /\ app_last.callback \in FailedCallbacks
                      /\ signal_connect_queue = << >>
                   \/ /\ signal_connect_queue # << >>
                      /\ signal_connect_queue[Len(signal_connect_queue)].callback
                            = app_last.callback

\* C2 witness: a call made with the window present returned without error.
C2_Witness ==
    /\ app_last.op = "queue_signal_connect"
    /\ app_last.window
    /\ app_last.raised = "None"
    /\ ConnCount(app_last.callback) = 1

\* C3: a request whose dotted path resolves to something that is no GObject
\* is never connected, and once it has left the queue its processing has
\* raised AssertionError.
C3_NotGObjectAsserts ==
    \A k \in 1..Len(submitted) :
        NotGObjectTarget(submitted[k].signal_spec)
            => /\ ConnCount(k) = 0
               /\ k \notin QueuedCallbacks
                     => [callback |-> k, error |-> "AssertionError"] \in failures

\* C3 witness: such a request has been processed, and the operation that
\* processed it raised AssertionError.
C3_Witness ==
    /\ app_last.raised = "AssertionError"
    /\ \E k \in 1..Len(submitted) :
          /\ NotGObjectTarget(submitted[k].signal_spec)
          /\ [callback |-> k, error |-> "AssertionError"] \in failures

\* the position in app_log of the first call named event, 0 if there is none
FirstPos(event) ==
    IF \E p \in 1..Len(app_log) : app_log[p] = event
    THEN CHOOSE p \in 1..Len(app_log) :
            /\ app_log[p] = event
            /\ \A q \in 1..(p - 1) : app_log[q] # event
    ELSE 0

\* the position in app_log of the obj.connect call that made connections[i]
ConnectPos(i) ==
    CHOOSE p \in 1..Len(app_log) :
        /\ app_log[p] = "connect"
        /\ Cardinality({q \in 1..p : app_log[q] = "connect"}) = i

Count(event) == Cardinality({p \in 1..Len(app_log) : app_log[p] = event})

\* the position in app_log at which the n-th activation starts
ActivationPos(n) ==
    CHOOSE p \in 1..Len(app_log) :
        /\ app_log[p] = "do_activate"
        /\ Cardinality({q \in 1..p : app_log[q] = "do_activate"}) = n

\* C21 as stated: the main window and the tray indicator are constructed at
\* most once, in the first activation, and every activation presents the
\* window once and emits app-ready once.
C21_Original ==
    /\ Count("MainWindow") <= 1
    /\ Count("TrayIndicator") <= 1
    /\ \A p \in 1..Len(app_log) :
          (app_log[p] \in {"MainWindow", "TrayIndicator"} /\ NumActivations >= 2)
              => p < ActivationPos(2)
    /\ Count("present") = NumActivations
    /\ Count("app-ready") = NumActivations

\* the positions in app_log of the calls of the n-th activation and of the
\* queue_signal_connect calls that follow it
Segment(n) ==
    { p \in 1..Len(app_log) :
        /\ p >= ActivationPos(n)
        /\ n < NumActivations => p < ActivationPos(n + 1) }

\* C21 (amended): the main window and the tray indicator are constructed at
\* most once, in the first activation.  Every activation presents the window
\* once and then emits app-ready once, except the first one when a queued
\* request fails in it: that one builds the window but no tray indicator,
\* presents nothing and emits nothing.
C21_ActivationsBuildOnce ==
    /\ Count("MainWindow") <= 1
    /\ Count("TrayIndicator") <= 1
    /\ \A p \in 1..Len(app_log) :
          (app_log[p] \in {"MainWindow", "TrayIndicator"} /\ NumActivations >= 2)
              => p < ActivationPos(2)
    /\ \A n \in 1..NumActivations :
          LET presents == { p \in Segment(n) : app_log[p] = "present" }
              readies  == { p \in Segment(n) : app_log[p] = "app-ready" }
          IN IF n = 1 /\ PreWindow \cap FailedCallbacks # {} /\ FirstPos("add_window") = 0
             THEN /\ presents = {} /\ readies = {}
                  /\ Count("MainWindow") = 1
                  /\ Count("TrayIndicator") = 0
             ELSE /\ Cardinality(presents) = 1
                  /\ readies = { p + 1 : p \in presents }

\* C21 witness: two activations; the first built the window and the tray
\* indicator, and both presented the window and emitted app-ready.
C21_Witness ==
    /\ NumActivations = 2
    /\ Count("MainWindow") = 1
    /\ tray_indicator = "TrayIndicator"
    /\ Count("present") = 2
    /\ Count("app-ready") = 2

\* the callbacks of a sequence of requests or connections, in order
Callbacks(seq) == [i \in 1..Len(seq) |-> seq[i].callback]

\* the step runs _process_signal_connect_queue: the first activation, or a
\* queue_signal_connect call made while the window exists
ProcessingStep ==
    \/ ~window /\ window'
    \/ window /\ Len(submitted') = Len(submitted) + 1

\* the queue that step processes
ProcessedQueue ==
    IF ~window THEN signal_connect_queue
    ELSE Append(signal_connect_queue,
                [signal_spec |-> submitted'[Len(submitted')].signal_spec,
                 callback |-> Len(submitted')])

\* the positions of the requests of queue that do not resolve
FailingIn(queue) ==
    { j \in 1..Len(queue) : Resolve(queue[j].signal_spec).error # "None" }

\* every request is connected once, queued once or failed, and only one of
\* these
NothingLost ==
    \A k \in 1..Len(submitted) :
        /\ ConnCount(k) <= 1
        /\ Cardinality({i \in 1..Len(signal_connect_queue) :
                            signal_connect_queue[i].callback = k}) <= 1
        /\ Cardinality({x \in {"connected", "queued", "failed"} :
                \/ x = "connected" /\ ConnCount(k) = 1
                \/ x = "queued" /\ k \in QueuedCallbacks
                \/ x = "failed" /\ k \in FailedCallbacks}) = 1

\* C28 as stated: a processing that fails on a request keeps the earlier
\* connections, connects the requests before the failing one, removes the
\* failing one and leaves the later ones queued in order; the next
\* processing then connects every request left in the queue, in order; and
\* nothing is connected twice or lost.
C28_Original ==
    /\ []NothingLost
    /\ [][ ProcessingStep =>
             LET bad == FailingIn(ProcessedQueue)
             IN /\ bad # {} =>
                      LET first == CHOOSE j \in bad : \A i \in bad : j <= i
                      IN /\ Callbacks(connections') = Callbacks(connections)
                               \o Callbacks(SubSeq(ProcessedQueue, 1, first - 1))
                         /\ signal_connect_queue'
                               = SubSeq(ProcessedQueue, first + 1, Len(ProcessedQueue))
                /\ (window /\ signal_connect_queue # << >>) =>
                      /\ Len(connections') >= Len(connections) + Len(signal_connect_queue)
                      /\ SubSeq(Callbacks(connections'), Len(connections) + 1,
                                Len(connections) + Len(signal_connect_queue))
                            = Callbacks(signal_connect_queue) ]_vars

\* C28 (amended): a processing connects, after the earlier connections and
\* in order, the requests of the queue up to the first one that does not
\* resolve, removes that one and records its failure, and leaves the later
\* ones queued in order; a processing of a queue whose requests all resolve
\* connects them all and empties the queue.  So the requests left behind
\* a failing one are connected by the next processing only up to the next
\* failing request.  Nothing is connected twice or lost.
C28_FailureKeepsOrder ==
    /\ []NothingLost
    /\ [][ ProcessingStep =>
             LET bad == FailingIn(ProcessedQueue)
                 first == IF bad = {} THEN Len(ProcessedQueue) + 1
                          ELSE CHOOSE j \in bad : \A i \in bad : j <= i
             IN /\ Callbacks(connections') = Callbacks(connections)
                      \o Callbacks(SubSeq(ProcessedQueue, 1, first - 1))
                /\ SubSeq(connections', 1, Len(connections)) = connections
                /\ signal_connect_queue'
                      = SubSeq(ProcessedQueue, first + 1, Len(ProcessedQueue))
                /\ bad # {} =>
                      /\ ProcessedQueue[first].callback \in FailedCallbacks'
                      /\ app_last'.raised # "None"
                /\ bad = {} => app_last'.raised = "None" ]_vars

\* C28 witness: the first activation failed on the first request, and the
\* two requests behind it were connected by the next processing.
C28_Witness ==
    /\ window
    /\ Len(submitted) = 3
    /\ 1 \in PreWindow /\ 2 \in PreWindow
    /\ FailedCallbacks = {1}
    /\ Callbacks(connections) = << 2, 3 >>
    /\ signal_connect_queue = << >>

-----------------------------------------------------------------------------
(* Login: properties *)

\* the last operation was the handling of a login result with this outcome
HandledLoginResult(outcome) ==
    login_last.op = "login_result" /\ login_last.outcome = outcome

\* the last operation was the handling of a 2FA submission result with this outcome
Handled2faResult(outcome) ==
    login_last.op = "2fa_result" /\ login_last.outcome = outcome

\* the handler of the last operation emitted the signal
Emitted(signal) ==
    \E i \in 1..Len(login_last.signals) : login_last.signals[i] = signal

\* the future was returned by a call of controller.login
ReturnedByControllerLogin(fut) ==
    fut \in 1..Len(futures) /\ futures[fut].method = "login"

LoginFormCleared == username = << >> /\ password = << >> /\ login_error = ""

\* C4: whenever the login button is clickable, the username and the password
\* are both non-empty after stripping whitespace.
C4_ButtonNeedsCredentials ==
    login_button_sensitive
        => Len(Strip(username)) > 0 /\ Len(Strip(password)) > 0

\* C4 witness: the button is clickable after a login result was handled.
C4_Witness ==
    /\ login_button_sensitive
    /\ login_last.op = "login_result"
    /\ Len(Strip(username)) > 0

\* C5: after a login result with authenticated and no 2FA is handled,
\* user-logged-in was emitted by that handler, the handler made no
\* display_form call (the 2FA form did not become the visible form), and the
\* login form's username, password and error message are empty.
C5_LoginWithout2fa ==
    HandledLoginResult(Result(TRUE, FALSE))
        => /\ login_last.signals = << "user-authenticated", "user-logged-in" >>
           /\ login_last.displayed = << >>
           /\ LoginFormCleared

\* C5 witness: such a result was handled while the login form was visible.
C5_Witness ==
    /\ HandledLoginResult(Result(TRUE, FALSE))
    /\ Emitted("user-logged-in")
    /\ visible_child = "login_form"

\* C6: after a login result with authenticated and 2FA required is handled,
\* the 2FA form is the visible form with an empty code and error message, the
\* login form is cleared, and user-logged-in was not emitted by that handler.
C6_LoginWith2fa ==
    HandledLoginResult(Result(TRUE, TRUE))
        => /\ visible_child = "2fa_form"
           /\ tfa_code = << >>
           /\ tfa_error = ""
           /\ LoginFormCleared
           /\ ~Emitted("user-logged-in")

\* C6 witness: such a result was handled and the 2FA form was displayed by it.
C6_Witness ==
    /\ HandledLoginResult(Result(TRUE, TRUE))
    /\ login_last.displayed = << "2fa_form" >>
    /\ visible_child = "2fa_form"

\* C7: after a 2FA submission result with authenticated = false is handled,
\* session-expired was emitted, the login form is the visible form with empty
\* username, password and error message, and user-logged-in was not emitted.
C7_SessionExpired ==
    (\E outcome \in NotAuthenticated : Handled2faResult(outcome))
        => /\ Emitted("session-expired")
           /\ visible_child = "login_form"
           /\ LoginFormCleared
           /\ ~Emitted("user-logged-in")

\* C7 witness: the session expired and the handler displayed the login form.
C7_Witness ==
    /\ \E outcome \in NotAuthenticated : Handled2faResult(outcome)
    /\ login_last.displayed = << "login_form" >>
    /\ tfa_error = "Session expired. Please login again."

\* C8: the visible child is one of the two forms, the login form initially,
\* and the 2FA form only while a login result that required 2FA has not been
\* followed by a session expiry or a LoginWidget.reset().
C8_VisibleForm ==
    /\ visible_child \in {"login_form", "2fa_form"}
    /\ login_last.op = "init" => visible_child = "login_form"
    /\ visible_child = "2fa_form" => twofa_due

\* C8 witness: the 2FA form is still visible after a 2FA result was handled.
C8_Witness ==
    /\ visible_child = "2fa_form"
    /\ login_last.op = "2fa_result"

\* C9: the handling of a login result with authenticated = false leaves the
\* visible form, the username, the password and the button as they were,
\* sets the error message to "Wrong credentials." and emits login-error and
\* nothing else.
C9_WrongCredentials ==
    [][ (idle_queue' # idle_queue /\ login_last'.op = "login_result"
            /\ login_last'.outcome \in NotAuthenticated)
          => /\ visible_child' = visible_child
             /\ login_error' = "Wrong credentials."
             /\ login_last'.signals = << "login-error" >>
             /\ username' = username
             /\ password' = password
             /\ login_button_sensitive' = login_button_sensitive ]_vars

\* C9 witness: wrong credentials were reported on the visible login form,
\* which still holds the typed credentials and can be submitted again.
C9_Witness ==
    /\ \E outcome \in NotAuthenticated : HandledLoginResult(outcome)
    /\ visible_child = "login_form"
    /\ login_error = "Wrong credentials."
    /\ login_button_sensitive

\* C10 as stated: when a malformed username is reported (ValueError), the
\* form shows "Invalid username." and emits login-error, and controller.login
\* was not called for that submission.
C10_Original ==
    HandledLoginResult(Raises("ValueError"))
        => /\ login_error = "Invalid username."
           /\ Emitted("login-error")
           /\ ~ReturnedByControllerLogin(login_last.fut)

\* C10 (amended): when the future returned by controller.login raises
\* ValueError, the form shows "Invalid username." and emits login-error and
\* nothing else; controller.login was called for that submission, and the
\* error is the result of its future.
C10_InvalidUsername ==
    HandledLoginResult(Raises("ValueError"))
        => /\ login_error = "Invalid username."
           /\ login_last.signals = << "login-error" >>
           /\ ReturnedByControllerLogin(login_last.fut)
           /\ futures[login_last.fut].state = "handled"

\* C10 witness: a ValueError was handled and the message is shown.
C10_Witness ==
    /\ HandledLoginResult(Raises("ValueError"))
    /\ login_error = "Invalid username."
    /\ visible_child = "login_form"

\* the step is a worker thread completing future fut
WorkerCompletes(fut) ==
    /\ fut \in 1..Len(futures)
    /\ futures[fut].state = "running"
    /\ Len(futures') = Len(futures)
    /\ futures'[fut].state = "done"

\* the step runs the result handler of future fut
HandlerRuns(fut) ==
    /\ fut \in 1..Len(futures)
    /\ futures[fut].state = "done"
    /\ futures'[fut].state = "handled"

WidgetsUnchanged ==
    UNCHANGED <<username, password, login_button_sensitive, login_error, login_spinner,
                active_form, visible_child, tfa_code, tfa_error, tfa_spinner>>

\* the error message of the form that is the visible child
VisibleError == IF visible_child = "login_form" THEN login_error ELSE tfa_error

\* C11: after a 2FA submission result with authenticated and no 2FA required
\* is handled, the handler emitted two-factor-auth-successful and then
\* user-logged-in, once each, and the 2FA form's code and error are empty.
C11_TwoFactorSuccess ==
    Handled2faResult(Result(TRUE, FALSE))
        => /\ login_last.signals = << "two-factor-auth-successful", "user-logged-in" >>
           /\ tfa_code = << >>
           /\ tfa_error = ""

\* C11 witness: a correct code was handled while the 2FA form was visible.
C11_Witness ==
    /\ Handled2faResult(Result(TRUE, FALSE))
    /\ Emitted("user-logged-in")
    /\ visible_child = "2fa_form"

\* C12: the handling of a 2FA submission result with authenticated and 2FA
\* still required leaves the visible form and the typed code as they were,
\* sets the error message to "Wrong 2FA code." and emits no signal.
C12_Wrong2faCode ==
    [][ (idle_queue' # idle_queue /\ login_last'.op = "2fa_result"
            /\ login_last'.outcome = Result(TRUE, TRUE))
          => /\ visible_child' = visible_child
             /\ tfa_error' = "Wrong 2FA code."
             /\ tfa_code' = tfa_code
             /\ login_last'.signals = << >> ]_vars

\* C12 witness: a wrong code was reported on the visible 2FA form, which
\* still holds the typed code.
C12_Witness ==
    /\ Handled2faResult(Result(TRUE, TRUE))
    /\ visible_child = "2fa_form"
    /\ tfa_error = "Wrong 2FA code."
    /\ tfa_code # << >>

\* C13: a worker thread completing a future changes no widget and emits no
\* signal, it only appends the handler to the idle queue; the handler's
\* effects happen in a later step of the UI loop, which takes the handler
\* from the head of the idle queue.
C13_WidgetsOnUiLoop ==
    [][ \A fut \in 1..Len(futures) :
          /\ WorkerCompletes(fut)
               => /\ WidgetsUnchanged
                  /\ login_last'.signals = << >>
                  /\ idle_queue' = Append(idle_queue, fut)
          /\ HandlerRuns(fut)
               => /\ idle_queue # << >>
                  /\ Head(idle_queue) = fut
                  /\ idle_queue' = Tail(idle_queue) ]_vars

\* C13 witness: a login future was completed by the worker while the spinner
\* is still spinning, its handler waiting in the idle queue.
C13_Witness ==
    /\ login_spinner
    /\ idle_queue # << >>
    /\ futures[Head(idle_queue)].state = "done"
    /\ futures[Head(idle_queue)].method = "login"

\* C15 as stated: after the handling of a failed outcome (malformed username,
\* wrong credentials, wrong 2FA code, session expiry during 2FA), the visible
\* form displays a non-empty error message.
C15_Original ==
    ( \/ HandledLoginResult(Raises("ValueError"))
      \/ \E outcome \in NotAuthenticated : HandledLoginResult(outcome)
      \/ Handled2faResult(Result(TRUE, TRUE))
      \/ \E outcome \in NotAuthenticated : Handled2faResult(outcome) )
        => VisibleError # ""

\* C14: under a UI loop that keeps running, every future that has completed
\* eventually has its result handler run; the handler of a future runs only
\* for a completed future waiting in the idle queue, and once it has run it
\* never runs again, whatever submissions, form switches and resets happen
\* in between.
C14_HandlerRunsOnce ==
    /\ \A fut \in 1..MaxSubmissions :
          (fut <= Len(futures) /\ futures[fut].state = "done")
              ~> (fut <= Len(futures) /\ futures[fut].state = "handled")
    /\ [][ \A fut \in 1..Len(futures) :
             /\ futures[fut].state = "handled" => futures'[fut].state = "handled"
             /\ futures[fut].state = "done"
                  => \E i \in 1..Len(idle_queue) :
                        /\ idle_queue[i] = fut
                        /\ \A j \in 1..Len(idle_queue) : idle_queue[j] = fut => j = i ]_vars

\* C14 witness: the first submission's result was handled, and the second,
\* made in the meantime, has completed and waits in the idle queue.
C14_Witness ==
    /\ Len(futures) = 2
    /\ futures[1].state = "handled"
    /\ futures[2].state = "done"
    /\ idle_queue = << 2 >>

-----------------------------------------------------------------------------
(* GeneralSettings: properties *)

IsO(c) == c \in {"o", "O"}
IsF(c) == c \in {"f", "F"}

\* the text is "off" in some letter case, with any surrounding whitespace
IsOffText(text) ==
    LET t == Strip(text)
    IN Len(t) = 3 /\ IsO(t[1]) /\ IsF(t[2]) /\ IsF(t[3])

\* C16: a step of the connect_at_app_startup setter leaves
\* tray_pinned_servers as it was and stores its own new value; a step of the
\* tray_pinned_servers setter leaves connect_at_app_startup as it was and
\* stores its own new list.
C16_SettersKeepOtherField ==
    [][ /\ (settings_last' # settings_last
              /\ settings_last'.op = "connect_at_app_startup")
           => /\ app_configuration'.tray_pinned_servers
                    = app_configuration.tray_pinned_servers
              /\ app_configuration'.connect_at_app_startup
                    = AutoConnectNewValue(settings_last'.text)
        /\ (settings_last' # settings_last
              /\ settings_last'.op = "tray_pinned_servers")
           => /\ app_configuration'.connect_at_app_startup
                    = app_configuration.connect_at_app_startup
              /\ app_configuration'.tray_pinned_servers
                    = CleanedServers(Split(settings_last'.text, ",")) ]_vars

\* C16 witness: both fields hold edited values, the pinned servers edited last.
C16_Witness ==
    /\ settings_last.op = "tray_pinned_servers"
    /\ ~app_configuration.connect_at_app_startup.is_none
    /\ app_configuration.connect_at_app_startup.text # << >>
    /\ Len(app_configuration.tray_pinned_servers) = 2

\* the pieces of a comma-separated text that are not blank, by position
NonBlank(text) ==
    { i \in 1..Len(Split(text, ",")) :
        \E j \in 1..Len(Split(text, ",")[i]) : Split(text, ",")[i][j] # " " }

\* C23: after the pinned-servers entry is left, the stored list holds, for
\* each piece of the text that is not blank and in the order of the pieces,
\* the piece stripped and upper-cased, and nothing else; and the list the
\* tray indicator read in reload_pinned_servers is that new list.
C23_PinnedServersList ==
    settings_last.op = "tray_pinned_servers" =>
        LET pieces == Split(settings_last.text, ",")
            kept == NonBlank(settings_last.text)
            stored == app_configuration.tray_pinned_servers
        IN /\ Len(stored) = Cardinality(kept)
           /\ \A i \in kept :
                 stored[Cardinality({j \in kept : j <= i})] = Upper(Strip(pieces[i]))
           /\ tray_loaded = stored

\* C23 witness: " u , ,f " was left in the entry after another list had been
\* stored and loaded; the blank piece is dropped.
C23_Witness ==
    /\ settings_last = [op |-> "tray_pinned_servers",
                        text |-> << " ", "u", " ", ",", " ", ",", "f", " " >>]
    /\ app_configuration.tray_pinned_servers = << << "U" >>, << "F" >> >>
    /\ tray_loaded = << << "U" >>, << "F" >> >>
    /\ ~app_configuration.connect_at_app_startup.is_none

\* C17: after the auto-connect entry is left, the stored value is None if the
\* text was "off" in any letter case with any surrounding whitespace, and the
\* stripped, upper-cased text otherwise; and the getter returns "Off" exactly
\* when the stored value is None.
C17_AutoConnectOff ==
    /\ settings_last.op = "connect_at_app_startup" =>
          IF IsOffText(settings_last.text)
          THEN app_configuration.connect_at_app_startup = None
          ELSE app_configuration.connect_at_app_startup
                  = Some(Upper(Strip(settings_last.text)))
    /\ ConnectAtAppStartup(app_configuration) = << "O", "f", "f" >>
          <=> app_configuration.connect_at_app_startup.is_none

\* C17 witness: " oFf " was left in the entry after another value had been
\* stored, and the setting reads back as "Off".
C17_Witness ==
    /\ settings_last = [op |-> "connect_at_app_startup",
                        text |-> << " ", "o", "F", "f", " " >>]
    /\ app_configuration.connect_at_app_startup = None
    /\ ConnectAtAppStartup(app_configuration) = << "O", "f", "f" >>

-----------------------------------------------------------------------------
(* scripts/versions.py: properties *)

\* A version string of the form N.N.N optionally followed by letters and
\* digits, read off the whole string: the numeric part and the tag.
ParseVersion(s) ==
    LET n1 == Run(s, 1, Digits)
        n2 == Run(s, n1 + 2, Digits)
        n3 == Run(s, n1 + n2 + 3, Digits)
        e  == n1 + n2 + n3 + 2
        l  == Run(s, e + 1, LowerLetters \cup UpperLetters)
        d  == Run(s, e + l + 1, Digits)
        numeric == /\ n1 >= 1 /\ n2 >= 1 /\ n3 >= 1
                   /\ s[n1 + 1] = "." /\ s[n1 + n2 + 2] = "."
    IN [valid   |-> numeric /\ (e = Len(s) \/ (l >= 1 /\ d >= 1 /\ e + l + d = Len(s))),
        numeric |-> IF numeric THEN SubSeq(s, 1, e) ELSE << >>,
        tag     |-> IF numeric THEN SubSeq(s, e + 1, Len(s)) ELSE << >>]

\* C18 (as stated): rebuild_version(v, delim) returns the numeric version,
\* delim and the tag for a valid v with a tag, v itself for a valid v without
\* a tag, and raises ValueError for every v that is not a valid version
\* string.
C18_Original ==
    script_last.op = "rebuild_version" =>
        LET p == ParseVersion(script_last.version)
        IN IF p.valid
           THEN /\ script_last.raises = "None"
                /\ script_last.value =
                      IF p.tag # << >>
                      THEN p.numeric \o << script_last.delim >> \o p.tag
                      ELSE script_last.version
           ELSE script_last.raises = "ValueError"

\* the items of a manifest, by release and position
Positions(versions) ==
    UNION { { << r, i >> : i \in 1..Len(versions[r]) } : r \in 1..Len(versions) }

ItemAt(versions, pos) == versions[pos[1]][pos[2]]

\* the text is YYYY/MM/DD HH:MM, Y, M, D and H being digits
IsTimeFormat(v) ==
    /\ v.type = "str"
    /\ Len(v.text) = 16
    /\ \A i \in {1, 2, 3, 4, 6, 7, 9, 10, 12, 13, 15, 16} : v.text[i] \in Digits
    /\ v.text[5] = "/" /\ v.text[8] = "/" /\ v.text[11] = " " /\ v.text[14] = ":"

\* C19 (as stated): validate_versions raises ValueError if some item has a
\* field that is not recognised, or is a time that is not YYYY/MM/DD HH:MM,
\* or has a recognised field and a value its validator does not accept; it
\* returns normally otherwise.
C19_Original ==
    script_last.op = "validate_versions" =>
        LET versions == script_last.versions
            offends(item) ==
                \/ item.field \notin RecognisedFields
                \/ item.field = "time" /\ ~IsTimeFormat(item.value)
                \/ item.field \in RecognisedFields
                      /\ Validator(item.field, item.value) # "True"
        IN IF \E pos \in Positions(versions) : offends(ItemAt(versions, pos))
           THEN script_last.raises = "ValueError"
           ELSE script_last.raises = "None"

\* C19 (amended): validate_versions returns normally exactly when every item
\* has a recognised field whose validator returns true, the time validator
\* being strptime with %Y/%m/%d %H:%M.  Otherwise the first item, in the
\* order of the manifest, that is not such decides: TypeError when it is a
\* value other than a string under a recognised field other than
\* description, ValueError in every other case.
C19_ValidateVersions ==
    script_last.op = "validate_versions" =>
        LET versions == script_last.versions
            before(p, q) == p[1] < q[1] \/ (p[1] = q[1] /\ p[2] < q[2])
            accepted(item) ==
                /\ item.field \in RecognisedFields
                /\ Validator(item.field, item.value) = "True"
            offenders == { pos \in Positions(versions) : ~accepted(ItemAt(versions, pos)) }
        IN IF offenders = {}
           THEN script_last.raises = "None"
           ELSE LET first == CHOOSE p \in offenders : \A q \in offenders \ {p} : before(p, q)
                    item == ItemAt(versions, first)
                IN IF /\ item.field \in RecognisedFields \ {"description"}
                      /\ item.value.type # "str"
                   THEN script_last.raises = "TypeError"
                   ELSE script_last.raises = "ValueError"

\* C19 witness: the first release is accepted, with a time that is not
\* zero-padded, and the second one holds a date that does not exist.
C19_Witness ==
    /\ script_last.op = "validate_versions"
    /\ Len(script_last.versions) = 2
    /\ script_last.versions[1] =
          << Item("time", Str(<< "2", "0", "2", "3", "/", "1", "/", "5", " ", "7", ":", "5" >>)) >>
    /\ Len(script_last.versions[2]) = 2
    /\ script_last.versions[2][2].field = "time"
    /\ script_last.versions[2][2].value.type = "str"
    /\ ~Strptime(script_last.versions[2][2].value.text)
    /\ ValidateRelease(SubSeq(script_last.versions[2], 1, 1)) = "None"
    /\ script_last.raises = "ValueError"

\* a submission made with method whose result has not been handled
InFlight(method) ==
    \E fut \in 1..Len(futures) :
        futures[fut].method = method /\ futures[fut].state # "handled"

\* C24 (as stated): the login spinner spins exactly when a login submission
\* has not had its result handled, and the 2FA spinner exactly when a 2FA
\* submission has not had its result handled.
C24_Original ==
    /\ login_spinner <=> InFlight("login")
    /\ tfa_spinner <=> InFlight("submit_2fa_code")

\* C27 (as stated): in every state, from construction onwards, active_form
\* is the form that is the visible child of the stack.
C27_Original == active_form = visible_child

-----------------------------------------------------------------------------
(* Login: properties of observed behaviours *)

\* C22: a step in which Enter is pressed in an entry of the login form calls
\* controller.login with the username and password of the form, once, when
\* the login button is sensitive; when it is not, the step calls nothing
\* and leaves every widget, the futures and the idle sources as they were.
C22_EnterSubmitsIfClickable ==
    [][ login_obs'.op = "press_enter" =>
          IF login_button_sensitive
          THEN /\ Len(futures') = Len(futures) + 1
               /\ SubSeq(futures', 1, Len(futures)) = futures
               /\ futures'[Len(futures')].method = "login"
               /\ login_obs'.call = Call("login", << username, password >>)
          ELSE /\ login_obs'.call = NoCall
               /\ WidgetsUnchanged
               /\ UNCHANGED <<futures, idle_queue>> ]_vars

\* C22 witness: Enter was pressed with a username and a password in the
\* form, and the login was submitted with them.
C22_Witness ==
    /\ login_obs.op = "press_enter"
    /\ login_button_sensitive
    /\ login_obs.call = Call("login", << << " ", "a" >>, << " ", "a" >> >>)
    /\ Len(futures) = 1

\* C25 (as stated): while the 2FA form is the visible child, the handling of
\* the result of a login that was submitted while the login form was still
\* the visible child leaves the visible child, the 2FA code and the 2FA
\* form's error message as they were.
C25_Original ==
    [][ \A fut \in 1..Len(futures) :
          ( /\ futures[fut].method = "login"
            /\ login_obs.shown[fut] = "login_form"
            /\ visible_child = "2fa_form"
            /\ futures[fut].state = "done"
            /\ futures'[fut].state = "handled" )
          => UNCHANGED <<visible_child, tfa_code, tfa_error>> ]_vars

\* C26 (as stated): user-logged-in is emitted at most once between two
\* submissions, and at most once after the last one.
C26_Original == login_obs.logged_in <= 1

-----------------------------------------------------------------------------
(* scripts/versions.py: properties of the builders *)

\* C29 (as stated): a non-empty manifest that validate_versions accepts is
\* rendered by build_deb, build_mkd and build_rpm without raising.
C29_Original ==
    (script_last.op = "build" /\ script_last.versions # << >>
        /\ script_last.raises = "None")
        => script_last.value = << "None", "None", "None" >>

====
